---- MODULE Spec2Model ----
(***************************************************************************)
(* cached_collections.py: Cached (push / pull / purge / _maybe_pull), the  *)
(* read-only mixins, CacheView and _view_descriptor, as a state machine.   *)
(*                                                                         *)
(* One redis namespace (one name, one version) is shared by two Cached     *)
(* instances: instance 1 lives in a process with two threads (1 and 2),    *)
(* instance 2 in another process with one thread (3).  Every statement     *)
(* that touches a field another thread can see, or that contacts redis,    *)
(* is one step.  Acquiring the RLock is merged into the step that follows  *)
(* it and releasing it into the step that precedes it.                     *)
(*                                                                         *)
(* All values are integers: None is -1, the `undefined` sentinel is -2,    *)
(* what load() returns is a payload number of Data, pickle.dumps adds      *)
(* PickleTag, a view's load hook adds ViewTag to the source's snapshot.    *)
(*                                                                         *)
(* The specifications run the same actions under different schedules:      *)
(*   Spec          two processes (threads 1 and 3), calls interleaved;     *)
(*   SpecThreads   two threads of one process (1 and 2) on instance 1,     *)
(*                 calls interleaved;                                      *)
(*   SpecSeq       two processes, one call at a time;                      *)
(*   SpecSeqViews  two processes, one call at a time, process 1 reads      *)
(*                 through an attached view;                               *)
(*   SpecViews     two threads of one process reading through the view     *)
(*                 attached to instance 1 while thread 2 pushes and purges;*)
(*   SpecPull      two processes, explicit pushes and pulls only;          *)
(*   SpecReliable  as SpecThreads, redis reachable at every contact;       *)
(*   SpecFair      as SpecReliable, MaxRev calls in all, every thread      *)
(*                 eventually takes its next step;                         *)
(*   SpecLossy     as SpecSeq, and the data key can disappear.             *)
(***************************************************************************)
EXTENDS Integers, FiniteSets, Sequences, TLC

\* ------------------------------------------------------------------ bounds
\* the revision key is never incremented beyond MaxRev
MaxRev == 3
\* time.time() runs from 0 to MaxTime
MaxTime == 2
\* check_interval, a parameter of Cached.__init__ (default 10): the instances
\* are built with a value that lets the interval elapse within MaxTime
CheckInterval == 2

\* --------------------------------------------------------------- constants
None == -1
Undefined == -2
PickleTag == 100
ViewTag == 200

Threads == {1, 2, 3}
Instances == {1, 2}
Data == {1, 2}

InstOf(t) == IF t = 3 THEN 2 ELSE 1

\* ------------------------------------------------------------------- state
VARIABLES
    storeRev,      \* redis: value of the revision key (None: key absent)
    storeData,     \* redis: value of the data key (None: key absent)
    now,           \* time.time()
    revision,      \* [instance -> self.revision]
    cache,         \* [instance -> self._cache]
    last_checked,  \* [instance -> self._last_checked]
    rlock,         \* [instance -> [owner, count]] self._rlock
    views,         \* [instance -> instance.__dict__.get(name, undefined)]
    vrev,          \* [view -> view._revision]  (a view is named by the thread that built it)
    vcache,        \* [view -> view._cache]     (Undefined: no such object yet)
    pc,            \* [thread -> position in the code]
    op,            \* [thread -> the operation the caller invoked]
    loaded,        \* [thread -> push's local `data`]
    pulled,        \* [thread -> pull's local `revision`]
    held,          \* [thread -> the view object the descriptor handed out]
    result,        \* [thread -> the value the finished call returned]
    exc,           \* [thread -> the exception the finished call raised]
    loads,         \* [thread -> how often the call invoked the view's load hook]
    sched,         \* the schedule: which threads run and what they call, whether
                   \* calls are serialized, and which observers record
    hist,          \* history of the namespace (observer, never read by the code)
    seq            \* history of the calls of a serialized run (observer)

store == <<storeRev, storeData>>
fields == <<revision, cache, last_checked>>
viewst == <<views, vrev, vcache>>
locals == <<loaded, pulled, held, result, exc, loads>>
vars == <<storeRev, storeData, now, revision, cache, last_checked, rlock,
          views, vrev, vcache, pc, op, loaded, pulled, held, result, exc,
          loads, sched, hist, seq>>

NoExc == "none"

\* ----------------------------------------------------------------- helpers
\* pickle.dumps / pickle.loads of a payload
PickleDumps(d) == PickleTag + d
\* a pull that keeps the raw bytes instead of unpickling them
PickleLoadsRaw(raw) == raw
PickleLoads(raw) == raw - PickleTag

\* the view's load hook, applied to the source's snapshot
ViewLoad(snapshot) == ViewTag + snapshot

\* INCR that takes an absent key for -1 and so creates it at 0
IncrFromMinusOne(v) == v + 1
\* INCR that stops counting at 1
IncrOnce(v) == IF v = None THEN 1 ELSE v
\* redis INCR: creates the key at 1 when it is absent
Incr(v) == IF v = None THEN 1 ELSE v + 1

\* SET that leaves a key alone when it already has a value (SETNX)
SetIfAbsent(old, raw) == IF old = None THEN raw ELSE old
\* redis SET: the key holds the new value whatever it held
Set(old, raw) == raw

\* a lock that is not reentrant (threading.Lock)
CanAcquireOnce(t) == rlock[InstOf(t)].owner = None
\* RLock.acquire by thread t does not block
CanAcquire(t) == rlock[InstOf(t)].owner \in {None, t}
Acquired(l, t) == [owner |-> t, count |-> l.count + 1]
Released(l) == IF l.count <= 1 THEN [owner |-> None, count |-> 0]
               ELSE [owner |-> l.owner, count |-> l.count - 1]
\* an exception that leaves the lock held (acquire without try/finally)
UnwoundKept(l, t) == l
\* every `with self._rlock` block of t is left (an exception unwinds them all)
Unwound(l, t) == IF l.owner = t THEN [owner |-> None, count |-> 0] ELSE l

\* where Cached._maybe_pull returns to
AfterMaybePull(t) == IF op[t] = "read" THEN "deref" ELSE "v_cmp"

\* the call of t ends by raising e
Raise(t, e) ==
    /\ pc' = [pc EXCEPT ![t] = "done"]
    /\ exc' = [exc EXCEPT ![t] = e]
    /\ loaded' = [loaded EXCEPT ![t] = None]
    /\ pulled' = [pulled EXCEPT ![t] = None]
    /\ rlock' = [rlock EXCEPT ![InstOf(t)] = Unwound(@, t)]

\* what a caller can see of the namespace and of t's instance
Snapshot(t) ==
    [storeRev |-> storeRev, storeData |-> storeData,
     revision |-> revision[InstOf(t)], cache |-> cache[InstOf(t)],
     last_checked |-> last_checked[InstOf(t)], now |-> now]

NoPrev == [t |-> 0, op |-> "none", exc |-> NoExc]

\* the observers: what a push, a purge and a staleness check add to the history
ObservePush(rev, raw) ==
    [hist EXCEPT
       !.pushes = IF sched.history THEN @ + 1 ELSE @,
       !.maxIssued = IF sched.history /\ rev > @ THEN rev ELSE @,
       !.pairs = [t \in Threads |->
                    IF sched.pairs /\ pc[t] \in {"pull_getdata", "pull_setrev"}
                    THEN @[t] \cup {<<rev, raw>>} ELSE @[t]]]
\* the (revision, data) pairs the store holds while a pull of t runs, from
\* the pull's read of the revision key on
ObservePull(t) ==
    IF sched.pairs
    THEN [hist EXCEPT !.pairs[t] = {<<storeRev, storeData>>}] ELSE hist
ObserveReturn(t) ==
    IF sched.pairs THEN [hist EXCEPT !.pairs[t] = {}] ELSE hist
ObservePurge ==
    IF sched.history THEN [hist EXCEPT !.pushes = 0, !.purged = TRUE] ELSE hist
ObserveCheck(i) ==
    IF sched.contacts THEN [hist EXCEPT !.contact[i] = now] ELSE hist
\* a contact that redis failed, or that a purge of the instance followed, is
\* not counted as the check of its window
ObserveNoCheck(i) ==
    IF sched.contacts THEN [hist EXCEPT !.contact[i] = None] ELSE hist

\* the staleness check of the running call caught RedisUnavailable
ObserveSwallowed ==
    IF sched.calls THEN [seq EXCEPT !.swallowed = TRUE] ELSE seq

\* the empty namespace: both keys absent
InitStore ==
    /\ storeRev = None
    /\ storeData = None

\* a namespace another process has pushed revision 1 to
InitStorePushed ==
    /\ storeRev = 1
    /\ storeData = PickleDumps(1)

InitState ==
    /\ now = 0
    /\ revision = [i \in Instances |-> None]
    /\ cache = [i \in Instances |-> None]
    /\ last_checked = [i \in Instances |-> None]
    /\ rlock = [i \in Instances |-> [owner |-> None, count |-> 0]]
    /\ views = [i \in Instances |-> Undefined]
    /\ vrev = [v \in Threads |-> Undefined]
    /\ vcache = [v \in Threads |-> Undefined]
    /\ pc = [t \in Threads |-> "idle"]
    /\ op = [t \in Threads |-> "none"]
    /\ loaded = [t \in Threads |-> None]
    /\ pulled = [t \in Threads |-> None]
    /\ held = [t \in Threads |-> None]
    /\ result = [t \in Threads |-> None]
    /\ exc = [t \in Threads |-> NoExc]
    /\ loads = [t \in Threads |-> 0]
    /\ hist = [pushes |-> 0, maxIssued |-> 0, purged |-> FALSE,
               contact |-> [i \in Instances |-> None],
               pairs |-> [t \in Threads |-> {}], begun |-> 0]
    /\ seq = [pre |-> Snapshot(1), prev |-> NoPrev, swallowed |-> FALSE,
              obs |-> [v \in Threads |-> Undefined]]

\* two processes, one thread each; both write and pull, process 1 also reads
Init ==
    /\ InitStore
    /\ InitState
    /\ sched = [threads |-> {1, 3}, readers |-> {1}, writers |-> {1, 3},
                serial |-> FALSE, history |-> TRUE, contacts |-> FALSE,
                calls |-> FALSE, pairs |-> FALSE, budget |-> 0]

\* one process, two threads sharing instance 1
InitThreads ==
    /\ InitStore
    /\ InitState
    /\ sched = [threads |-> {1, 2}, readers |-> {1, 2}, writers |-> {1, 2},
                serial |-> FALSE, history |-> FALSE, contacts |-> TRUE,
                calls |-> FALSE, pairs |-> FALSE, budget |-> 0]

\* two processes, one thread each, one call at a time
InitSeq ==
    /\ InitStore
    /\ InitState
    /\ sched = [threads |-> {1, 3}, readers |-> {1, 3}, writers |-> {1, 3},
                serial |-> TRUE, history |-> FALSE, contacts |-> FALSE,
                calls |-> TRUE, pairs |-> FALSE, budget |-> 0]

\* two processes, one call at a time; process 1 reads, also through its view
InitSeqViews ==
    /\ InitStore
    /\ InitState
    /\ sched = [threads |-> {1, 3}, readers |-> {1}, writers |-> {1, 3},
                serial |-> TRUE, history |-> FALSE, contacts |-> FALSE,
                calls |-> FALSE, pairs |-> FALSE, budget |-> 0]

\* one process, two threads reading through the view of instance 1; thread 2
\* also pushes and purges; the namespace was pushed to before the process began
InitViews ==
    /\ InitStorePushed
    /\ InitState
    /\ sched = [threads |-> {1, 2}, readers |-> {1, 2}, writers |-> {2},
                serial |-> FALSE, history |-> FALSE, contacts |-> FALSE,
                calls |-> FALSE, pairs |-> FALSE, budget |-> 0]

\* two processes racing push and pull
InitPull ==
    /\ InitStore
    /\ InitState
    /\ sched = [threads |-> {1, 3}, readers |-> {}, writers |-> {1, 3},
                serial |-> FALSE, history |-> FALSE, contacts |-> FALSE,
                calls |-> FALSE, pairs |-> TRUE, budget |-> 0]

\* one process, two threads sharing instance 1, which make MaxRev calls in
\* all (so that no push finds the revision counter at its bound)
InitFair ==
    /\ InitStore
    /\ InitState
    /\ sched = [threads |-> {1, 2}, readers |-> {1, 2}, writers |-> {1, 2},
                serial |-> FALSE, history |-> FALSE, contacts |-> FALSE,
                calls |-> FALSE, pairs |-> FALSE, budget |-> MaxRev]

\* ------------------------------------------------------------ calls begin
Call(t, o, first) ==
    /\ pc[t] = "idle"
    /\ t \in sched.threads
    /\ sched.serial => \A u \in Threads \ {t} : pc[u] = "idle"
    /\ pc' = [pc EXCEPT ![t] = first]
    /\ op' = [op EXCEPT ![t] = o]
    /\ seq' = IF sched.calls
              THEN [seq EXCEPT !.pre = Snapshot(t), !.swallowed = FALSE]
              ELSE seq
    /\ sched.budget > 0 => hist.begun < sched.budget
    /\ hist' = IF sched.budget > 0 THEN [hist EXCEPT !.begun = @ + 1] ELSE hist
    /\ UNCHANGED <<store, now, fields, rlock, viewst, locals, sched>>

StartPush(t) == t \in sched.writers /\ Call(t, "push", "push_exec")
StartPull(t) == t \in sched.writers /\ Call(t, "pull", "pull_getrev")
StartPurge(t) == t \in sched.writers /\ Call(t, "purge", "purge_exec")
StartRead(t) == t \in sched.readers /\ Call(t, "read", "mp_test1")
StartViewRead(t) == t \in sched.readers /\ Call(t, "vread", "attr_get")

\* the caller takes the result; the thread is free for its next call
Return(t) ==
    LET i == InstOf(t) IN
    /\ pc[t] = "done"
    /\ pc' = [pc EXCEPT ![t] = "idle"]
    /\ op' = [op EXCEPT ![t] = "none"]
    /\ result' = [result EXCEPT ![t] = None]
    /\ exc' = [exc EXCEPT ![t] = NoExc]
    /\ held' = [held EXCEPT ![t] = None]
    /\ loads' = [loads EXCEPT ![t] = 0]
    /\ seq' = [seq EXCEPT
                 !.pre = IF sched.calls THEN Snapshot(t) ELSE @,
                 !.swallowed = FALSE,
                 !.prev = IF sched.calls /\ exc[t] = NoExc
                             /\ op[t] \in {"push", "purge"}
                          THEN [t |-> t, op |-> op[t], exc |-> NoExc]
                          ELSE NoPrev,
                 !.obs = IF sched.serial /\ op[t] = "vread" /\ exc[t] = NoExc
                         THEN [@ EXCEPT ![held[t]] = revision[i]] ELSE @]
    /\ hist' = ObserveReturn(t)
    /\ UNCHANGED <<store, now, fields, rlock, viewst, loaded, pulled, sched>>

\* ------------------------------------------------------------ Cached.push
\* with self._rlock: data = self.load(); pipe.set(data key, dumps(data));
\* pipe.incr(revision key); _, self.revision = pipe.execute()
PushExec(t) ==
    LET i == InstOf(t) IN
    /\ pc[t] = "push_exec"
    /\ CanAcquire(t)
    /\ Incr(storeRev) <= MaxRev
    /\ \E d \in Data :
        /\ loaded' = [loaded EXCEPT ![t] = d]
        /\ storeData' = Set(storeData, PickleDumps(d))
    /\ storeRev' = Incr(storeRev)
    /\ revision' = [revision EXCEPT ![i] = storeRev']
    /\ rlock' = [rlock EXCEPT ![i] = Acquired(@, t)]
    /\ pc' = [pc EXCEPT ![t] = "push_cache"]
    /\ hist' = ObservePush(storeRev', storeData')
    /\ UNCHANGED <<now, cache, last_checked, viewst, op, pulled, held, result,
                   exc, loads, sched, seq>>

\* pipe.execute() raises RedisUnavailable
PushExecFail(t) ==
    /\ pc[t] = "push_exec"
    /\ CanAcquire(t)
    /\ Raise(t, "RedisUnavailable")
    /\ hist' = ObserveNoCheck(InstOf(t))
    /\ UNCHANGED <<store, now, fields, viewst, op, held, result, loads,
                   sched, seq>>

\* self._cache = data; leave push (and pull, when pull called it)
PushCache(t) ==
    LET i == InstOf(t) IN
    /\ pc[t] = "push_cache"
    /\ cache' = [cache EXCEPT ![i] = loaded[t]]
    /\ loaded' = [loaded EXCEPT ![t] = None]
    /\ IF op[t] = "push"
       THEN /\ rlock' = [rlock EXCEPT ![i] = Released(@)]
            /\ pc' = [pc EXCEPT ![t] = "done"]
       ELSE /\ rlock' = [rlock EXCEPT ![i] = Released(Released(@))]
            /\ pc' = [pc EXCEPT ![t] = IF op[t] = "pull" THEN "done" ELSE "mp_stamp"]
    /\ UNCHANGED <<store, now, revision, last_checked, viewst, op, pulled,
                   held, result, exc, loads, sched, hist, seq>>

\* ------------------------------------------------------------ Cached.pull
\* a pull that never bootstraps
NothingToPullNever(rev) == FALSE
\* if revision is None:   (nothing to pull, pushing initial revision)
NothingToPull(rev) == rev = None

\* with self._rlock: revision = self._redis_client.get(self._revision_key)
\* if revision is None: self.push(); return
PullGetRev(t) ==
    LET i == InstOf(t) IN
    /\ pc[t] = "pull_getrev"
    /\ CanAcquire(t)
    /\ rlock' = [rlock EXCEPT ![i] = Acquired(@, t)]
    /\ IF NothingToPull(storeRev)
       THEN /\ pc' = [pc EXCEPT ![t] = "push_exec"]
            /\ UNCHANGED <<pulled, hist>>
       ELSE /\ pc' = [pc EXCEPT ![t] = "pull_getdata"]
            /\ pulled' = [pulled EXCEPT ![t] = storeRev]
            /\ hist' = ObservePull(t)
    /\ UNCHANGED <<store, now, fields, viewst, op, loaded, held, result, exc,
                   loads, sched, seq>>

PullGetRevFail(t) ==
    /\ pc[t] = "pull_getrev"
    /\ CanAcquire(t)
    /\ Raise(t, "RedisUnavailable")
    /\ hist' = ObserveNoCheck(InstOf(t))
    /\ UNCHANGED <<store, now, fields, viewst, op, held, result, loads,
                   sched, seq>>

\* raw_data = self._redis_client.get(self._data_key)
\* self._cache = pickle.loads(raw_data)
PullGetData(t) ==
    LET i == InstOf(t) IN
    /\ pc[t] = "pull_getdata"
    /\ IF storeData = None
       THEN \* pickle.loads(None)
            /\ Raise(t, "TypeError")
            /\ UNCHANGED cache
       ELSE /\ cache' = [cache EXCEPT ![i] = PickleLoads(storeData)]
            /\ pc' = [pc EXCEPT ![t] = "pull_setrev"]
            /\ UNCHANGED <<rlock, loaded, pulled, exc>>
    /\ UNCHANGED <<store, now, revision, last_checked, viewst, op, held,
                   result, loads, sched, hist, seq>>

PullGetDataFail(t) ==
    /\ pc[t] = "pull_getdata"
    /\ Raise(t, "RedisUnavailable")
    /\ hist' = ObserveNoCheck(InstOf(t))
    /\ UNCHANGED <<store, now, fields, viewst, op, held, result, loads,
                   sched, seq>>

\* self.revision = int(revision); leave pull
PullSetRev(t) ==
    LET i == InstOf(t) IN
    /\ pc[t] = "pull_setrev"
    /\ revision' = [revision EXCEPT ![i] = pulled[t]]
    /\ pulled' = [pulled EXCEPT ![t] = None]
    /\ rlock' = [rlock EXCEPT ![i] = Released(@)]
    /\ pc' = [pc EXCEPT ![t] = IF op[t] = "pull" THEN "done" ELSE "mp_stamp"]
    /\ hist' = ObserveReturn(t)
    /\ UNCHANGED <<store, now, cache, last_checked, viewst, op, loaded, held,
                   result, exc, loads, sched, seq>>

\* ----------------------------------------------------------- Cached.purge
\* with self._rlock: pipe.delete(data key); pipe.delete(revision key);
\* pipe.execute(); self.revision = None
PurgeExec(t) ==
    LET i == InstOf(t) IN
    /\ pc[t] = "purge_exec"
    /\ CanAcquire(t)
    /\ rlock' = [rlock EXCEPT ![i] = Acquired(@, t)]
    /\ storeRev' = None
    /\ storeData' = None
    /\ revision' = [revision EXCEPT ![i] = None]
    /\ pc' = [pc EXCEPT ![t] = "purge_cache"]
    /\ hist' = ObservePurge
    /\ UNCHANGED <<now, cache, last_checked, viewst, op, locals, sched, seq>>

PurgeExecFail(t) ==
    /\ pc[t] = "purge_exec"
    /\ CanAcquire(t)
    /\ Raise(t, "RedisUnavailable")
    /\ UNCHANGED <<store, now, fields, viewst, op, held, result, loads,
                   sched, hist, seq>>

\* a purge that keeps the snapshot
PurgeCacheKept(t) ==
    /\ pc[t] = "purge_cache"
    /\ pc' = [pc EXCEPT ![t] = "purge_stamp"]
    /\ UNCHANGED <<store, now, fields, rlock, viewst, op, locals, sched, hist, seq>>

\* self._cache = None
PurgeCache(t) ==
    /\ pc[t] = "purge_cache"
    /\ cache' = [cache EXCEPT ![InstOf(t)] = None]
    /\ pc' = [pc EXCEPT ![t] = "purge_stamp"]
    /\ UNCHANGED <<store, now, revision, last_checked, rlock, viewst, op,
                   locals, sched, hist, seq>>

\* a purge that forgets to reset _last_checked
PurgeStampKept(t) ==
    LET i == InstOf(t) IN
    /\ pc[t] = "purge_stamp"
    /\ rlock' = [rlock EXCEPT ![i] = Released(@)]
    /\ pc' = [pc EXCEPT ![t] = "done"]
    /\ UNCHANGED <<store, now, fields, viewst, op, locals, sched, hist, seq>>

\* self._last_checked = None; leave purge
PurgeStamp(t) ==
    LET i == InstOf(t) IN
    /\ pc[t] = "purge_stamp"
    /\ last_checked' = [last_checked EXCEPT ![i] = None]
    /\ rlock' = [rlock EXCEPT ![i] = Released(@)]
    /\ pc' = [pc EXCEPT ![t] = "done"]
    /\ hist' = ObserveNoCheck(i)
    /\ UNCHANGED <<store, now, revision, cache, viewst, op, locals, sched, seq>>

\* ----------------------------------------------------- Cached._maybe_pull
\* if self._last_checked is not None:
MaybePullTest1(t) ==
    /\ pc[t] = "mp_test1"
    /\ pc' = [pc EXCEPT ![t] = IF last_checked[InstOf(t)] # None
                               THEN "mp_test2" ELSE "mp_check"]
    /\ UNCHANGED <<store, now, fields, rlock, viewst, op, locals, sched,
                   hist, seq>>

\* the throttle: time.time() - self._last_checked < self._check_interval
Throttled(time, stamp) == time - stamp < CheckInterval

\* if time.time() - self._last_checked < self._check_interval: return
MaybePullTest2(t) ==
    LET i == InstOf(t) IN
    /\ pc[t] = "mp_test2"
    /\ IF last_checked[i] = None
       THEN \* float - None
            /\ Raise(t, "TypeError")
       ELSE /\ pc' = [pc EXCEPT ![t] = IF Throttled(now, last_checked[i])
                                      THEN AfterMaybePull(t) ELSE "mp_check"]
            /\ UNCHANGED <<rlock, loaded, pulled, exc>>
    /\ UNCHANGED <<store, now, fields, viewst, op, held, result, loads,
                   sched, hist, seq>>

\* a comparison that takes an equal revision for stale
UpToDateStrict(current, mine) == current # None /\ current < mine
\* a comparison that takes a missing revision key for "nothing newer"
UpToDateOrMissing(current, mine) == current = None \/ current <= mine
\* if current_revision and int(current_revision) <= self.revision
UpToDate(current, mine) == current # None /\ current <= mine

\* with self._rlock:
\*     if self.revision is not None:
\*         current_revision = self._redis_client.get(self._revision_key)
\*         if current_revision and int(current_revision) <= self.revision:
\*             self._last_checked = time.time(); return
\*     self.pull()
MaybePullCheck(t) ==
    LET i == InstOf(t) IN
    /\ pc[t] = "mp_check"
    /\ CanAcquire(t)
    /\ IF revision[i] # None /\ UpToDate(storeRev, revision[i])
       THEN /\ last_checked' = [last_checked EXCEPT ![i] = now]
            /\ pc' = [pc EXCEPT ![t] = AfterMaybePull(t)]
            /\ UNCHANGED rlock
       ELSE /\ rlock' = [rlock EXCEPT ![i] = Acquired(@, t)]
            /\ pc' = [pc EXCEPT ![t] = "pull_getrev"]
            /\ UNCHANGED last_checked
    /\ hist' = ObserveCheck(i)
    /\ UNCHANGED <<store, now, revision, cache, viewst, op, locals, sched, seq>>

\* except RedisUnavailable: return
MaybePullCheckFail(t) ==
    LET i == InstOf(t) IN
    /\ pc[t] = "mp_check"
    /\ CanAcquire(t)
    /\ revision[i] # None
    /\ pc' = [pc EXCEPT ![t] = AfterMaybePull(t)]
    /\ hist' = ObserveNoCheck(i)
    /\ seq' = ObserveSwallowed
    /\ UNCHANGED <<store, now, fields, rlock, viewst, op, locals, sched>>

\* self._last_checked = time.time(); leave _maybe_pull
MaybePullStamp(t) ==
    LET i == InstOf(t) IN
    /\ pc[t] = "mp_stamp"
    /\ last_checked' = [last_checked EXCEPT ![i] = now]
    /\ rlock' = [rlock EXCEPT ![i] = Released(@)]
    /\ pc' = [pc EXCEPT ![t] = AfterMaybePull(t)]
    /\ UNCHANGED <<store, now, revision, cache, viewst, op, locals, sched,
                   hist, seq>>

\* ------------------------------ CachedMappingMixin / CachedSequenceMixin
\* self._maybe_pull(); return self._cache[key]
Deref(t) ==
    LET i == InstOf(t) IN
    /\ pc[t] = "deref"
    /\ IF cache[i] = None
       THEN \* None[key]
            /\ Raise(t, "TypeError")
            /\ UNCHANGED result
       ELSE /\ result' = [result EXCEPT ![t] = cache[i]]
            /\ pc' = [pc EXCEPT ![t] = "done"]
            /\ UNCHANGED <<rlock, loaded, pulled, exc>>
    /\ UNCHANGED <<store, now, fields, viewst, op, held, loads, sched, hist, seq>>

\* ------------------------------------------- _view_descriptor.__get__
\* view = instance.__dict__.get(self.__name__, undefined)
AttrGet(t) ==
    LET i == InstOf(t) IN
    /\ pc[t] = "attr_get"
    /\ IF views[i] = Undefined
       THEN /\ pc' = [pc EXCEPT ![t] = "attr_store"]
            /\ UNCHANGED held
       ELSE /\ pc' = [pc EXCEPT ![t] = "mp_test1"]
            /\ held' = [held EXCEPT ![t] = views[i]]
    /\ UNCHANGED <<store, now, fields, rlock, viewst, op, loaded, pulled,
                   result, exc, loads, sched, hist, seq>>

\* view = view_cls(instance); instance.__dict__[self.__name__] = view
\* CacheView.__init__: self._revision = undefined; self._cache = None
AttrStore(t) ==
    LET i == InstOf(t) IN
    /\ pc[t] = "attr_store"
    /\ vrev' = [vrev EXCEPT ![t] = Undefined]
    /\ vcache' = [vcache EXCEPT ![t] = None]
    /\ views' = [views EXCEPT ![i] = t]
    /\ held' = [held EXCEPT ![t] = t]
    /\ pc' = [pc EXCEPT ![t] = "mp_test1"]
    /\ UNCHANGED <<store, now, fields, rlock, op, loaded, pulled, result, exc,
                   loads, sched, hist, seq>>

\* ----------------------------------------------- CacheView._maybe_pull
\* a view that recomputes on every read
ViewStaleAlways(captured, current) == TRUE
\* the view is stale: self._revision != self._cached_collection.revision
ViewStale(captured, current) == captured # current

\* self._cached_collection._maybe_pull() has returned;
\* if self._revision != self._cached_collection.revision:
ViewCompare(t) ==
    /\ pc[t] = "v_cmp"
    /\ pc' = [pc EXCEPT ![t] = IF ViewStale(vrev[held[t]], revision[InstOf(t)])
                               THEN "v_load" ELSE "v_deref"]
    /\ UNCHANGED <<store, now, fields, rlock, viewst, op, locals, sched,
                   hist, seq>>

\* self._cache = self.load(self._cached_collection)
ViewLoadCache(t) ==
    LET i == InstOf(t) IN
    /\ pc[t] = "v_load"
    /\ loads' = [loads EXCEPT ![t] = @ + 1]
    /\ IF cache[i] = None
       THEN \* the hook reads a snapshot that is None
            /\ Raise(t, "TypeError")
            /\ UNCHANGED vcache
       ELSE /\ vcache' = [vcache EXCEPT ![held[t]] = ViewLoad(cache[i])]
            /\ pc' = [pc EXCEPT ![t] = "v_cap"]
            /\ UNCHANGED <<rlock, loaded, pulled, exc>>
    /\ UNCHANGED <<store, now, fields, views, vrev, op, held, result, sched,
                   hist, seq>>

\* self._revision = self._cached_collection.revision
ViewCapture(t) ==
    /\ pc[t] = "v_cap"
    /\ vrev' = [vrev EXCEPT ![held[t]] = revision[InstOf(t)]]
    /\ pc' = [pc EXCEPT ![t] = "v_deref"]
    /\ UNCHANGED <<store, now, fields, rlock, views, vcache, op, locals,
                   sched, hist, seq>>

\* return self._cache[key]   (the view's own _cache)
ViewDeref(t) ==
    /\ pc[t] = "v_deref"
    /\ IF vcache[held[t]] = None
       THEN /\ Raise(t, "TypeError")
            /\ UNCHANGED result
       ELSE /\ result' = [result EXCEPT ![t] = vcache[held[t]]]
            /\ pc' = [pc EXCEPT ![t] = "done"]
            /\ UNCHANGED <<rlock, loaded, pulled, exc>>
    /\ UNCHANGED <<store, now, fields, viewst, op, held, loads, sched, hist, seq>>

\* ------------------------------------------------------------ environment
\* the data key disappears while the revision key stays (expiry, eviction or
\* a DEL from outside this code)
DataKeyLost ==
    /\ storeRev # None
    /\ storeData # None
    /\ storeData' = None
    /\ UNCHANGED <<storeRev, now, fields, rlock, viewst, pc, op, locals, sched,
                   hist, seq>>

\* ------------------------------------------------------------------ clock
Tick ==
    /\ now < MaxTime
    /\ now' = now + 1
    /\ UNCHANGED <<store, fields, rlock, viewst, pc, op, locals, sched, hist, seq>>

\* ------------------------------------------------------------------- next
\* the code of Cached
CachedStep(t) ==
    \/ PushExec(t) \/ PushCache(t)
    \/ PullGetRev(t) \/ PullGetData(t) \/ PullSetRev(t)
    \/ PurgeExec(t) \/ PurgeCache(t) \/ PurgeStamp(t)
    \/ MaybePullTest1(t) \/ MaybePullTest2(t) \/ MaybePullCheck(t)
    \/ MaybePullStamp(t) \/ Return(t)

\* a read of a Cached collection, and the calls of pull
DatasetRead(t) == StartRead(t) \/ Deref(t) \/ StartPull(t)

\* redis is unreachable
StoreFailure(t) ==
    \/ PushExecFail(t) \/ PullGetRevFail(t) \/ PullGetDataFail(t)
    \/ PurgeExecFail(t) \/ MaybePullCheckFail(t)

\* a read through an attached view
ViewStep(t) ==
    \/ StartViewRead(t) \/ AttrGet(t) \/ AttrStore(t)
    \/ ViewCompare(t) \/ ViewLoadCache(t) \/ ViewCapture(t) \/ ViewDeref(t)

Next ==
    \/ \E t \in Threads :
         \/ StartPush(t) \/ StartPurge(t) \/ CachedStep(t) \/ DatasetRead(t)
         \/ StoreFailure(t)
    \/ Tick

NextSeqViews ==
    \/ \E t \in Threads :
         \/ StartPush(t) \/ StartPurge(t) \/ CachedStep(t) \/ DatasetRead(t)
         \/ StoreFailure(t) \/ ViewStep(t)
    \/ Tick

NextViews ==
    \/ \E t \in Threads :
         \/ StartPush(t) \/ StartPurge(t) \/ CachedStep(t) \/ ViewStep(t)
    \/ Tick

\* explicit pushes and pulls only
PushPullStep(t) ==
    \/ StartPush(t) \/ StartPull(t)
    \/ PushExec(t) \/ PushCache(t)
    \/ PullGetRev(t) \/ PullGetData(t) \/ PullSetRev(t)
    \/ Return(t)

NextPull == \E t \in Threads : PushPullStep(t)

\* redis is reachable at every contact
NextReliable ==
    \/ \E t \in Threads :
         \/ StartPush(t) \/ StartPurge(t) \/ CachedStep(t) \/ DatasetRead(t)
    \/ Tick

\* a thread inside a call that can take its next step eventually takes it
Progress(t) == CachedStep(t) \/ Deref(t)

\* redis fails, and loses the data key, at any moment
NextLossy == Next \/ DataKeyLost

Spec == Init /\ [][Next]_vars

SpecReliable == InitThreads /\ [][NextReliable]_vars

SpecLossy == InitSeq /\ [][NextLossy]_vars

SpecFair ==
    /\ InitFair
    /\ [][NextReliable]_vars
    /\ \A t \in Threads : WF_vars(Progress(t))

SpecPull == InitPull /\ [][NextPull]_vars

SpecThreads == InitThreads /\ [][Next]_vars

SpecSeq == InitSeq /\ [][Next]_vars

SpecSeqViews == InitSeqViews /\ [][NextSeqViews]_vars

SpecViews == InitViews /\ [][NextViews]_vars

\* ------------------------------------------------------------------ claims
Rev0(v) == IF v = None THEN 0 ELSE v
Finished(t, o) == pc[t] = "done" /\ op[t] = o
Succeeded(t, o) == Finished(t, o) /\ exc[t] = NoExc
\* the throttle test of _maybe_pull lets a call through that begins in state s
Unthrottled(s) ==
    s.last_checked = None \/ ~Throttled(s.now, s.last_checked)

\* C1: the step of push that executes the pipeline writes the pickled load()
\* value to the data key and increments the revision key together, and sets
\* the local revision to the incremented value, which is the store's revision
\* before the push (0 when absent) plus 1 and which is N for the Nth push
\* since the namespace was empty; the next step of push sets the snapshot to
\* the loaded value and leaves the revision.
C1_PushYieldsNext ==
    [][\A t \in Threads :
         LET i == InstOf(t) IN
         /\ (pc[t] = "push_exec" /\ pc'[t] = "push_cache") =>
              /\ storeRev' = Rev0(storeRev) + 1
              /\ storeData' = PickleDumps(loaded'[t])
              /\ loaded'[t] \in Data
              /\ revision'[i] = storeRev'
              /\ hist'.pushes = storeRev'
         /\ (pc[t] = "push_cache" /\ pc'[t] # "push_cache") =>
              /\ cache'[i] = loaded[t]
              /\ revision'[i] = revision[i]
              /\ store' = store
    ]_vars

\* a second push has completed and holds revision 2
C1_Witness ==
    \E t \in Threads :
        /\ Succeeded(t, "push")
        /\ revision[InstOf(t)] = 2
        /\ hist.pushes = 2
        /\ cache[InstOf(t)] \in Data

\* C2: a pull that starts on a namespace without revision key, and that redis
\* does not fail, bootstraps: it ends without exception, the store holds
\* revision 1 and the pickled loaded value, the instance holds revision 1 and
\* that loaded value.
C2_PullBootstraps ==
    \A t \in Threads :
        (/\ Finished(t, "pull")
         /\ seq.pre.storeRev = None
         /\ exc[t] # "RedisUnavailable") =>
            /\ exc[t] = NoExc
            /\ storeRev = 1
            /\ revision[InstOf(t)] = 1
            /\ cache[InstOf(t)] \in Data
            /\ storeData = PickleDumps(cache[InstOf(t)])

C2_Witness ==
    \E t \in Threads :
        /\ Succeeded(t, "pull")
        /\ seq.pre.storeRev = None
        /\ revision[InstOf(t)] = 1

\* C3: when the call before B's pull was a completed push of an instance A
\* other than B's, and redis does not fail the pull, the pull ends without
\* exception with B's revision equal to A's and B's snapshot equal to A's.
C3_PullSeesPush ==
    \A b \in Threads :
        (/\ Finished(b, "pull")
         /\ seq.prev.op = "push"
         /\ seq.prev.t # b
         /\ exc[b] # "RedisUnavailable") =>
            /\ exc[b] = NoExc
            /\ revision[InstOf(b)] = revision[InstOf(seq.prev.t)]
            /\ cache[InstOf(b)] = cache[InstOf(seq.prev.t)]
            /\ revision[InstOf(b)] # None
            /\ cache[InstOf(b)] \in Data

\* B has pulled revision 2 and a snapshot that differs from the one it had
C3_Witness ==
    \E b \in Threads :
        /\ Succeeded(b, "pull")
        /\ seq.prev.op = "push"
        /\ seq.prev.t # b
        /\ revision[InstOf(b)] = 2
        /\ seq.pre.cache \in Data
        /\ seq.pre.cache # cache[InstOf(b)]

\* C4: a completed purge leaves both store keys deleted and the instance's
\* revision, snapshot and last_checked None; the read that follows it on the
\* same instance, when redis does not fail it, ends without exception, has
\* pushed revision 1 (the bootstrap), returns the snapshot it loaded and
\* leaves last_checked stamped.
C4_PurgeThenRead ==
    \A t \in Threads :
        LET i == InstOf(t) IN
        /\ Succeeded(t, "purge") =>
            /\ storeRev = None
            /\ storeData = None
            /\ revision[i] = None
            /\ cache[i] = None
            /\ last_checked[i] = None
        /\ (/\ Finished(t, "read")
            /\ seq.prev.op = "purge"
            /\ InstOf(seq.prev.t) = i
            /\ exc[t] # "RedisUnavailable") =>
            /\ exc[t] = NoExc
            /\ storeRev = 1
            /\ revision[i] = 1
            /\ cache[i] \in Data
            /\ storeData = PickleDumps(cache[i])
            /\ result[t] = cache[i]
            /\ last_checked[i] # None

\* a read right after the purge has bootstrapped the namespace again
C4_Witness ==
    \E t \in Threads :
        /\ Succeeded(t, "read")
        /\ seq.prev.op = "purge"
        /\ InstOf(seq.prev.t) = InstOf(t)
        /\ seq.pre.storeRev = None
        /\ revision[InstOf(t)] = 1
        /\ seq.pre.last_checked = None

\* C5: a staleness check that passes the throttle and goes on to contact redis
\* does so only when no such check of the instance contacted redis less than
\* CheckInterval ago, whichever threads read (a contact that redis failed or
\* that a purge of the instance followed does not count).
C5_OneContactPerWindow ==
    [][\A t \in Threads :
         (pc[t] = "mp_check" /\ pc'[t] # "mp_check") =>
            \/ hist.contact[InstOf(t)] = None
            \/ now - hist.contact[InstOf(t)] >= CheckInterval
    ]_vars

\* C6: a read of an instance that was synchronized when the read began never
\* raises: when redis fails during its staleness check the read still ends
\* without exception, returning the snapshot it had, with revision, snapshot
\* and last_checked unchanged.
C6_SyncedReadNeverRaises ==
    \A t \in Threads :
        (Finished(t, "read") /\ seq.pre.revision # None) =>
            /\ exc[t] = NoExc
            /\ result[t] \in Data

\* C7: a view read that ends without exception has invoked the view's load
\* hook exactly once when the source revision it observes differs from the one
\* the view's previous read observed (or when the view was never read), and
\* not at all when the two are equal.
C7_LoadOncePerRevision ==
    \A t \in Threads :
        Succeeded(t, "vread") =>
            loads[t] = IF seq.obs[held[t]] # revision[InstOf(t)] THEN 1 ELSE 0

\* the view was read before, the source has moved to revision 2, and this read
\* has invoked load once more
C7_Witness ==
    \E t \in Threads :
        /\ Succeeded(t, "vread")
        /\ seq.obs[held[t]] = 1
        /\ revision[InstOf(t)] = 2
        /\ loads[t] = 1

\* C8: when a view read ends without exception, the view's captured revision
\* is the source's revision and the view's snapshot is load applied to the
\* source's snapshot.
C8_ViewMatchesSource ==
    \A t \in Threads :
        Succeeded(t, "vread") =>
            /\ vrev[held[t]] = revision[InstOf(t)]
            /\ vcache[held[t]] = ViewLoad(cache[InstOf(t)])

\* C9: at most one view object is ever built for an owning instance, and
\* every access is handed the object the instance stores.
C9_OneViewPerInstance ==
    /\ \A i \in Instances :
         Cardinality({v \in Threads : InstOf(v) = i /\ vcache[v] # Undefined}) <= 1
    /\ \A t \in Threads : held[t] # None => held[t] = views[InstOf(t)]

\* C10 as stated: every push returns a revision greater than every revision an
\* earlier push on the namespace returned, the first push returns 1, and an
\* instance's revision only changes to a greater one.
C10_AlwaysIncreasing ==
    [][/\ \A t \in Threads :
            (pc[t] = "push_exec" /\ pc'[t] = "push_cache") =>
               /\ storeRev' > hist.maxIssued
               /\ hist.maxIssued = 0 => storeRev' = 1
       /\ \A i \in Instances :
            (revision[i] # None /\ revision'[i] # None
             /\ revision'[i] # revision[i]) => revision'[i] > revision[i]
    ]_vars

\* C10 amended: as long as the namespace has not been purged, every push
\* returns a revision greater than every revision an earlier push returned,
\* the first push returns 1, and an instance's revision, once set, only
\* changes to a greater one.
C10_IncreasingUntilPurge ==
    [][~hist'.purged =>
         /\ \A t \in Threads :
              (pc[t] = "push_exec" /\ pc'[t] = "push_cache") =>
                 /\ storeRev' > hist.maxIssued
                 /\ hist.maxIssued = 0 => storeRev' = 1
         /\ \A i \in Instances :
              (revision[i] # None /\ revision'[i] # revision[i]) =>
                 (revision'[i] # None /\ revision'[i] > revision[i])
    ]_vars

\* without a purge both processes have pushed and the store is at revision 3
C10_Witness ==
    /\ ~hist.purged
    /\ hist.maxIssued = 3
    /\ storeRev = 3
    /\ revision[1] = 3
    /\ revision[2] = 2

\* C11: as long as the namespace has not been purged, every push of racing
\* processes obtains a revision no earlier push obtained, the store's revision
\* counter grows with it, the data key then holds that push's payload, and no
\* other step changes the data key or the revision key: the pair in the store
\* is always the one written by one single push.
C11_RacingPushesKeepPair ==
    [][~hist'.purged =>
         /\ \A t \in Threads :
              (pc[t] = "push_exec" /\ pc'[t] = "push_cache") =>
                 /\ storeRev' > Rev0(storeRev)
                 /\ storeRev' > hist.maxIssued
                 /\ revision'[InstOf(t)] = storeRev'
                 /\ storeData' = PickleDumps(loaded'[t])
         /\ (storeRev' # storeRev \/ storeData' # storeData) =>
              \E t \in Threads :
                 /\ pc[t] = "push_exec" /\ pc'[t] = "push_cache"
                 /\ storeRev' # storeRev
    ]_vars

\* both processes are inside push at once: process 1 obtained revision 1 with
\* payload 1, process 3 then obtained revision 2 and its payload 2 is stored
C11_Witness ==
    /\ ~hist.purged
    /\ pc[1] = "push_cache" /\ pc[3] = "push_cache"
    /\ op[1] = "push" /\ op[3] = "push"
    /\ revision[1] = 1 /\ revision[2] = 2
    /\ loaded[1] = 1 /\ loaded[3] = 2
    /\ storeRev = 2
    /\ storeData = PickleDumps(2)

\* C12: whenever no thread holds an instance's lock (no thread is inside push,
\* pull, purge or the locked part of the staleness check, also after one of
\* them raised), the instance's snapshot is None exactly when its revision is.
C12_SnapshotIffRevision ==
    \A i \in Instances :
        rlock[i].owner = None => ((cache[i] # None) <=> (revision[i] # None))

\* a pull of a synchronized instance has been failed by redis and has left
\* the lock; the other instance has been purged
C12_Witness ==
    /\ Finished(1, "pull") /\ exc[1] = "RedisUnavailable"
    /\ rlock[1].owner = None
    /\ revision[1] # None /\ cache[1] # None
    /\ hist.purged /\ rlock[2].owner = None
    /\ revision[2] = None /\ cache[2] = None

\* C13: a thread takes a step that reads or writes revision, _cache or
\* _last_checked of an instance (in push, pull, purge, the staleness check,
\* the read that follows it, or a view's comparison, load and capture) only
\* when no other thread holds that instance's lock.
C13_FieldsOnlyUnderLock ==
    [][\A t \in Threads :
         (/\ pc[t] \in {"push_exec", "push_cache", "pull_getdata",
                        "pull_setrev", "purge_exec", "purge_cache",
                        "purge_stamp", "mp_test1", "mp_test2", "mp_check",
                        "mp_stamp", "deref", "v_cmp", "v_load", "v_cap"}
          /\ pc'[t] # pc[t])
            => rlock[InstOf(t)].owner \in {None, t}
    ]_vars

\* C14: with calls serialized, a read of a synchronized instance that is not
\* throttled, whose check reaches redis, and that finds the revision key
\* missing or above the local revision, ends (when nothing fails) with the
\* local revision and snapshot equal to the store's revision and unpickled
\* data, having pushed revision 1 when the key was missing and having left
\* the store alone otherwise, and with _last_checked stamped.
C14_StaleCheckPulls ==
    \A t \in Threads :
        LET i == InstOf(t) IN
        (/\ Succeeded(t, "read")
         /\ seq.pre.revision # None
         /\ Unthrottled(seq.pre)
         /\ seq.pre.storeRev = None \/ seq.pre.storeRev > seq.pre.revision
         /\ ~seq.swallowed)
          => /\ storeRev # None
             /\ revision[i] = storeRev
             /\ cache[i] = PickleLoads(storeData)
             /\ result[t] = cache[i]
             /\ IF seq.pre.storeRev = None
                THEN storeRev = 1
                ELSE /\ storeRev = seq.pre.storeRev
                     /\ storeData = seq.pre.storeData
             /\ last_checked[i] # None
             /\ last_checked[i] >= seq.pre.now

\* process 1 was at revision 1 with payload 1 when the other process had
\* pushed revision 2 with payload 2; its read has pulled revision 2
C14_Witness ==
    /\ Succeeded(1, "read")
    /\ seq.pre.revision = 1 /\ seq.pre.cache = 1
    /\ seq.pre.storeRev = 2 /\ seq.pre.storeData = PickleDumps(2)
    /\ Unthrottled(seq.pre)
    /\ ~seq.swallowed
    /\ revision[1] = 2 /\ cache[1] = 2 /\ result[1] = 2
    /\ last_checked[1] # None

\* C15: the step of the staleness check that holds the lock and reaches redis
\* on a synchronized instance, finding a revision at or below the local one,
\* ends the check at once (the check does not go on to pull, so the data key
\* is never read), leaves both keys, every revision and every snapshot as
\* they were, and sets _last_checked of the instance to the current time and
\* nothing else.
C15_UpToDateOnlyStamps ==
    [][\A t \in Threads :
         LET i == InstOf(t) IN
         (/\ MaybePullCheck(t)
          /\ revision[i] # None
          /\ storeRev # None
          /\ storeRev <= revision[i])
            => /\ pc'[t] = AfterMaybePull(t)
               /\ storeRev' = storeRev /\ storeData' = storeData
               /\ revision' = revision /\ cache' = cache
               /\ last_checked' = [last_checked EXCEPT ![i] = now]
               /\ rlock' = rlock
               /\ pulled' = pulled /\ loaded' = loaded
    ]_vars

\* process 1 was at revision 2 and never checked, the store had been purged
\* and pushed again to revision 1 with another payload; the read of process 1
\* has stamped _last_checked and kept revision 2 and its snapshot
C15_Witness ==
    /\ Succeeded(1, "read")
    /\ seq.pre.revision = 2 /\ seq.pre.storeRev = 1
    /\ seq.pre.last_checked = None
    /\ ~seq.swallowed
    /\ last_checked[1] # None
    /\ revision[1] = 2 /\ cache[1] = seq.pre.cache
    /\ storeRev = 1 /\ storeData = seq.pre.storeData

\* C16: the step that ends a pull which did not bootstrap leaves the instance
\* with a (revision, snapshot) pair that is the revision and the unpickled
\* data the store held together at some moment since the pull read the
\* revision key.
C16_PullPairNotTorn ==
    [][\A t \in Threads :
         (pc[t] = "pull_setrev" /\ pc'[t] # "pull_setrev") =>
            \E p \in hist.pairs[t] :
               /\ revision'[InstOf(t)] = p[1]
               /\ cache'[InstOf(t)] = PickleLoads(p[2])
    ]_vars

\* C17: with redis reachable and threads scheduled fairly, every call of push,
\* pull, purge or a read that a thread has begun on the shared instance comes
\* to its end: the nested acquisitions of the lock by one thread do not block
\* it, and a thread waiting for the lock gets it.
C17_EveryCallEnds ==
    \A t \in Threads : (pc[t] # "idle") ~> (pc[t] = "done")

\* thread 1 holds the lock three times over (staleness check, pull, push of
\* the bootstrap) while thread 2 waits for it in purge
C17_Witness ==
    /\ op[1] = "read" /\ pc[1] = "push_cache"
    /\ rlock[1] = [owner |-> 1, count |-> 3]
    /\ pc[2] = "purge_exec"

\* C18: with calls serialized, a push, pull or purge that ends by raising
\* (redis unreachable at any of its contacts, or pull finding the data key
\* absent and failing to unpickle) leaves the instance's revision, snapshot
\* and _last_checked as they were when the call began, has not written a
\* revision to the store, and has released the lock.
C18_FailedCallChangesNothing ==
    \A t \in Threads :
        LET i == InstOf(t) IN
        (/\ pc[t] = "done"
         /\ op[t] \in {"push", "pull", "purge"}
         /\ exc[t] # NoExc)
          => /\ revision[i] = seq.pre.revision
             /\ cache[i] = seq.pre.cache
             /\ last_checked[i] = seq.pre.last_checked
             /\ storeRev = seq.pre.storeRev
             /\ rlock[i] = [owner |-> None, count |-> 0]

\* a pull of a synchronized, checked instance found the revision key but no
\* data key and raised TypeError from pickle.loads
C18_Witness ==
    /\ Finished(1, "pull") /\ exc[1] = "TypeError"
    /\ storeRev = 2 /\ storeData = None
    /\ seq.pre.revision = 1 /\ revision[1] = 1 /\ cache[1] # None
    /\ last_checked[1] # None
    /\ rlock[1].owner = None

\* C19: with calls serialized, a read of a synchronized instance that is not
\* throttled and whose check reaches redis ends (when nothing fails) with the
\* instance's snapshot equal to the unpickled data the store holds, whatever
\* pushes and purges other processes made before.
C19_CheckedReadIsCurrent ==
    \A t \in Threads :
        LET i == InstOf(t) IN
        (/\ Succeeded(t, "read")
         /\ seq.pre.revision # None
         /\ Unthrottled(seq.pre)
         /\ ~seq.swallowed)
          => /\ storeData # None
             /\ cache[i] = PickleLoads(storeData)
             /\ result[t] = PickleLoads(storeData)

\* C20: with redis reachable, a read of an instance that other threads push
\* to, pull, purge and read at the same time ends without exception and
\* returns from a snapshot that is not None.
C20_ReadNeverFails ==
    \A t \in Threads :
        Finished(t, "read") => (exc[t] = NoExc /\ result[t] \in Data)

====
